---- MODULE Spec2Model ----
(***************************************************************************)
(* Leave-request approval workflow of petrodata-leave-project.             *)
(*                                                                         *)
(* The model follows the handlers of pkg/models/model.go (the most         *)
(* complete revision of the handlers) over the leave_requests table whose  *)
(* row type is models.LeaveRequest.  Tokens are UUID strings in the code;  *)
(* here the n-th UUID stored for the row of primary key i is the pair      *)
(* <<i, n>> (the request token is <<i, 0>>) and the empty string is        *)
(* <<0, 0>>: uuid.New() only has to return a value never seen before.  A   *)
(* handler that reads a row, changes it and saves it is two steps (the     *)
(* read, then the save and the response), so that the calls of concurrent  *)
(* requests interleave as net/http runs them.                              *)
(*                                                                         *)
(* The handlers use the fields MDDecision and FinalHRToken, which the      *)
(* LeaveRequest struct of the sources does not declare; they are           *)
(* modelled as the handlers use them.  No source calls AutoMigrate, so the *)
(* table is created outside the program: it may or may not carry the       *)
(* unique indexes that the struct's gorm tags declare, and both tables are *)
(* initial states.  A string field with no value is stored as '' (gorm     *)
(* writes Go's zero value), so '' is a value the unique indexes compare.   *)
(*                                                                         *)
(* A handler hands its notification to a goroutine after its save and      *)
(* answers without waiting; the goroutine calls the mail service, which     *)
(* reads BASE_URL and the SMTP values from the environment when it sends,   *)
(* and logs the outcome.  Spec, SpecRace and SpecForm are deployments with  *)
(* the mail service configured and leave the goroutines unscheduled;        *)
(* SpecMail starts from any environment and runs them.                      *)
(*                                                                         *)
(* SpecFlow is the workflow as the pages drive it, with the goroutines and  *)
(* the recipients as fair processes.  SpecAuth is the users table under     *)
(* Signup, whose existence check and insert are two steps; a lookup of the  *)
(* store answers (the store fails at writes only).                          *)
(***************************************************************************)
EXTENDS Integers, FiniteSets, Sequences, TLC

\* ------------------------------------------------------------------ bounds
MaxRequests == 2
MaxTokens == 4
MaxInflight == 2
MaxFlows == 1
MaxUsers == 2

\* --------------------------------------------------------------- constants
StatusPending == "Pending"
StatusApproved == "Approved"
StatusRejected == "Rejected"
StatusPendingHRReview == "Pending HR Review"
StatusPendingMDApproval == "Pending MD Final Approval"
StatusRejectedByManager == "Rejected by Manager - Pending HR Filing"
StatusRejectedByHR == "Rejected by HR - Pending MD Review"
StatusRejectedByMD == "Rejected by MD"
StatusFullyApproved == "Fully Approved"

\* The empty string of a token column and of a token parameter.
NoToken == <<0, 0>>

\* Decision strings the callers send in "status".
Decisions == {StatusApproved, StatusRejected}

\* Addresses the callers send in "hr_email" / "md_email".
HREmails == {"h@x.com"}
MDEmails == {"d@x.com"}

VARIABLES
  leave_requests,  \* the rows of the leave_requests table
  nextId,          \* the next value of the table's id sequence
  uuids,           \* per row, how many UUIDs the stage actions stored in it
  uniqueIndex,     \* whether the table carries the unique indexes of the gorm tags
  inflight,        \* action calls that have read their row and not yet saved
  outbox,          \* notifications handed to a goroutine
  last,            \* the response of the handler that finished last
  env,             \* which environment values of the mail service are set
  mailLog,         \* per notification whose goroutine ran, what it logged
  users,           \* the rows of the users table
  signing          \* Signup calls that found no user of their email, not yet saved

vars ==
  <<leave_requests, nextId, uuids, uniqueIndex, inflight, outbox, last, env,
    mailLog, users, signing>>

\* ------------------------------------------------------------------- rows
\* The JSON body of POST /api/leave/submit decodes into a whole LeaveRequest:
\* these are the fields a body can set that Submit does not overwrite.
PlainBody ==
  [ StaffName |-> "Ada", ManagerEmail |-> "m@x.com",
    HREmail |-> "", MDEmail |-> "",
    ManagerDecision |-> "", HRDecision |-> "", MDDecision |-> "",
    HRToken |-> NoToken, MDToken |-> NoToken, FinalHRToken |-> NoToken ]

RequestTokens == { r.RequestToken : r \in leave_requests }

\* Bodies sent to Submit: the form's body, a body that also carries a
\* decision field, and a body that carries as hr_token a request token an
\* earlier Submit returned to its caller.
SubmitBodies ==
  {PlainBody}
  \cup { [PlainBody EXCEPT !.HRDecision = StatusApproved] }
  \cup { [PlainBody EXCEPT !.HRToken = t] : t \in RequestTokens }

\* uuid.New(): a value never returned before.  A UUID is named when the
\* handler that generated it stores it; until then it is a local variable of
\* that handler, and a UUID whose save fails is never seen by anyone.
NewUUID(id) == <<id, IF id \in DOMAIN uuids THEN uuids[id] + 1 ELSE 0>>

RECURSIVE Sum(_, _)
Sum(f, S) == IF S = {} THEN 0
             ELSE LET x == CHOOSE y \in S : TRUE IN f[x] + Sum(f, S \ {x})

\* UUIDs named so far: one per Submit and one per saved stage action.
Generated == (nextId - 1) + Sum(uuids, DOMAIN uuids)

\* SubmitLeaveRequest's "initialize request with defaults".
NewLeaveRequest(body, id, token) ==
  [ ID |-> id,
    StaffName |-> body.StaffName, ManagerEmail |-> body.ManagerEmail,
    HREmail |-> body.HREmail, MDEmail |-> body.MDEmail,
    Status |-> StatusPending,
    ManagerDecision |-> body.ManagerDecision,
    HRDecision |-> body.HRDecision,
    MDDecision |-> body.MDDecision,
    ManagerApproved |-> FALSE, HRApproved |-> FALSE, MDApproved |-> FALSE,
    RequestToken |-> token,
    HRToken |-> body.HRToken, MDToken |-> body.MDToken,
    FinalHRToken |-> body.FinalHRToken ]

\* ------------------------------------------------------------------ store
Column(r, col) ==
  CASE col = "request_token" -> r.RequestToken
    [] col = "hr_token" -> r.HRToken
    [] col = "md_token" -> r.MDToken
    [] col = "final_hr_token" -> r.FinalHRToken

Matches(col, token) == { r \in leave_requests : Column(r, col) = token }

NoRow == [ ID |-> 0 ]

\* DB.Where(col = ?, token).First(&leaveReq): the matching row of least
\* primary key, or NoRow (gorm.ErrRecordNotFound).
First(col, token) ==
  IF Matches(col, token) = {} THEN NoRow
  ELSE CHOOSE r \in Matches(col, token) :
         \A o \in Matches(col, token) : r.ID <= o.ID

TokenColumns == {"request_token", "hr_token", "md_token", "final_hr_token"}

IndexedColumns == {"request_token", "hr_token", "md_token"}

\* The unique indexes accept row r beside the rows `others`.
UniqueOk(r, others) ==
  uniqueIndex =>
    \A o \in others : \A col \in IndexedColumns : Column(o, col) # Column(r, col)

OtherRows(id) == { r \in leave_requests : r.ID # id }

\* ---------------------------------------------------------- notifications
Notification(to, name, page, token) ==
  [ to |-> to, name |-> name, page |-> page, token |-> token ]

\* ---------------------------------------------------------------- replies
\* What the handler that finished last answered: the endpoint, the HTTP
\* status code and the "status" / "request_token" fields of a success body
\* (for a Fetch, of the row in the body).  With a 200 of a stage action go the
\* decision and the address of the request it answers, the primary key `id`
\* of the row it saved, the token it issued, and what that token's column
\* held when the handler read the row (`read`) and just before it saved it
\* (`replaced`).  An error body is {"error": message}.
Reply(op, code, id, decision, email, status, issued, read, replaced) ==
  [ op |-> op, code |-> code, id |-> id, decision |-> decision,
    email |-> email, status |-> status,
    issued |-> issued, read |-> read, replaced |-> replaced ]

ErrorReply(op, code) ==
  Reply(op, code, 0, "", "", "", NoToken, NoToken, NoToken)

NoReply == ErrorReply("none", 0)

\* The process environment as the mail service reads it: whether BASE_URL is
\* set, and whether SMTP_PORT (a number), SMTP_HOST, SMTP_USER and SMTP_PASS
\* all are.
Environment(baseURL, smtp) == [ BASE_URL |-> baseURL, SMTP |-> smtp ]

Configured == Environment(TRUE, TRUE)

\* A deployment with the mail service configured.
Init ==
  /\ leave_requests = {}
  /\ nextId = 1
  /\ uuids = <<>>
  /\ uniqueIndex \in BOOLEAN
  /\ inflight = {}
  /\ outbox = {}
  /\ last = NoReply
  /\ env = Configured
  /\ mailLog = {}
  /\ users = {}
  /\ signing = {}

\* A Submit that sends its notification itself and answers after the send.
SubmitLeaveRequestAwaitingSend(body, dbOk) ==
  /\ nextId <= MaxRequests
  /\ Generated + Cardinality(inflight) < MaxTokens
  /\ LET leaveReq == NewLeaveRequest(body, nextId, NewUUID(nextId))
     IN /\ uuids' = Append(uuids, 0)
        /\ nextId' = nextId + 1
        /\ IF dbOk /\ UniqueOk(leaveReq, leave_requests)
           THEN /\ leave_requests' = leave_requests \cup {leaveReq}
                /\ outbox' = outbox \cup
                     { Notification(leaveReq.ManagerEmail, leaveReq.StaffName,
                                    "approve.html", leaveReq.RequestToken) }
                /\ last' = Reply("submit", 202, leaveReq.ID, "", "",
                                 leaveReq.Status, leaveReq.RequestToken,
                                 NoToken, NoToken)
           ELSE /\ last' = ErrorReply("submit", 500)
                /\ UNCHANGED <<leave_requests, outbox>>
  /\ mailLog' = mailLog \cup
          { [ n |-> n, error |-> "" ] : n \in outbox' \ outbox }
        /\ UNCHANGED <<uniqueIndex, inflight, env, users, signing>>

\* ----------------------------------------------------------------- submit
\* dbOk is whether the store executes the write.  The id sequence advances
\* whether or not the insert succeeds.
SubmitLeaveRequest(body, dbOk) ==
  /\ nextId <= MaxRequests
  /\ Generated + Cardinality(inflight) < MaxTokens
  /\ LET leaveReq == NewLeaveRequest(body, nextId, NewUUID(nextId))
     IN /\ uuids' = Append(uuids, 0)
        /\ nextId' = nextId + 1
        /\ IF dbOk /\ UniqueOk(leaveReq, leave_requests)
           THEN /\ leave_requests' = leave_requests \cup {leaveReq}
                /\ outbox' = outbox \cup
                     { Notification(leaveReq.ManagerEmail, leaveReq.StaffName,
                                    "approve.html", leaveReq.RequestToken) }
                /\ last' = Reply("submit", 202, leaveReq.ID, "", "",
                                 leaveReq.Status, leaveReq.RequestToken,
                                 NoToken, NoToken)
           ELSE /\ last' = ErrorReply("submit", 500)
                /\ UNCHANGED <<leave_requests, outbox>>
  /\ UNCHANGED <<uniqueIndex, inflight, env, users, signing, mailLog>>

\* ------------------------------------------------------------------ fetch
\* The four GET handlers: validateToken, then First on the stage's column.
FetchReply(op, col, token) ==
  IF token = NoToken THEN ErrorReply(op, 400)
  ELSE IF First(col, token) = NoRow THEN ErrorReply(op, 404)
  ELSE Reply(op, 200, First(col, token).ID, "", "",
             First(col, token).Status, NoToken, NoToken, NoToken)

\* The JSON body of a Fetch answered 200: respondJSON encodes the row that
\* First returned, with every field of the struct under its json tag.
FetchBody(op, col, token) ==
  IF FetchReply(op, col, token).code = 200 THEN First(col, token) ELSE NoRow

\* A Fetch that serves a token once: it deletes the row it returns.
FetchOnce(op, col, token) ==
  /\ last' = FetchReply(op, col, token)
  /\ leave_requests' = leave_requests \ {First(col, token)}
  /\ UNCHANGED <<nextId, uuids, uniqueIndex, inflight, outbox, env, users,
            signing, mailLog>>

Fetch(op, col, token) ==
  /\ last' = FetchReply(op, col, token)
  /\ UNCHANGED <<leave_requests, nextId, uuids, uniqueIndex, inflight, outbox,
                 env, users, signing, mailLog>>

GetLeaveRequestByToken(token) == Fetch("details", "request_token", token)

GetLeaveRequestByHRToken(token) == Fetch("hr-details", "hr_token", token)

GetLeaveRequestByMDToken(token) == Fetch("md-details", "md_token", token)

GetFinalArchiveDetails(token) == Fetch("final-details", "final_hr_token", token)

\* ---------------------------------------------------------- stage actions
\* The decoded body of an action request: token, status and, for the manager
\* and HR, the next party's address.
ActionRequest(token, status, email) ==
  [ Token |-> token, Status |-> status, Email |-> email ]

\* A handler whose two labels are exchanged.
StatusAfterManagerSwapped(approved) ==
  IF approved THEN StatusRejectedByManager ELSE StatusPendingHRReview

StatusAfterManager(approved) ==
  IF approved THEN StatusPendingHRReview ELSE StatusRejectedByManager

\* The HR handler of pkg/handlers/handlers.go, which sets one label whatever
\* the decision.
StatusAfterHRAlwaysPending(approved) == StatusPendingMDApproval

StatusAfterHR(approved) ==
  IF approved THEN StatusPendingMDApproval ELSE StatusRejectedByHR

StatusAfterMD(approved) ==
  IF approved THEN StatusFullyApproved ELSE StatusRejectedByMD

\* What each handler assigns to the row it read, before it saves it.
\* A manager handler that forwards to HR only what it approved: it generates
\* the HR token when the decision is "Approved".
RecordManagerDecisionForwardApproved(leaveReq, req, token) ==
  [ leaveReq EXCEPT
      !.ManagerDecision = req.Status,
      !.ManagerApproved = (req.Status = StatusApproved),
      !.HREmail = req.Email,
      !.Status = StatusAfterManager(req.Status = StatusApproved),
      !.HRToken = IF req.Status = StatusApproved THEN token ELSE @ ]

\* A manager handler that compares the decision without regard to case.
RecordManagerDecisionAnyCase(leaveReq, req, token) ==
  [ leaveReq EXCEPT
      !.ManagerDecision = req.Status,
      !.ManagerApproved = (req.Status \in {StatusApproved, "approved"}),
      !.HREmail = req.Email,
      !.Status = StatusAfterManager(req.Status \in {StatusApproved, "approved"}),
      !.HRToken = token ]

\* A manager handler that generates an HR token only for a row without one.
RecordManagerDecisionKeepToken(leaveReq, req, token) ==
  [ leaveReq EXCEPT
      !.ManagerDecision = req.Status,
      !.ManagerApproved = (req.Status = StatusApproved),
      !.HREmail = req.Email,
      !.Status = StatusAfterManager(req.Status = StatusApproved),
      !.HRToken = IF @ = NoToken THEN token ELSE @ ]

RecordManagerDecision(leaveReq, req, token) ==
  [ leaveReq EXCEPT
      !.ManagerDecision = req.Status,
      !.ManagerApproved = (req.Status = StatusApproved),
      !.HREmail = req.Email,
      !.Status = StatusAfterManager(req.Status = StatusApproved),
      !.HRToken = token ]

\* An HR handler that records its decision and leaves the status as it was.
RecordHRDecisionKeepStatus(leaveReq, req, token) ==
  [ leaveReq EXCEPT
      !.HRDecision = req.Status,
      !.HRApproved = (req.Status = StatusApproved),
      !.MDEmail = req.Email,
      !.MDToken = token ]

RecordHRDecision(leaveReq, req, token) ==
  [ leaveReq EXCEPT
      !.HRDecision = req.Status,
      !.HRApproved = (req.Status = StatusApproved),
      !.MDEmail = req.Email,
      !.Status = StatusAfterHR(req.Status = StatusApproved),
      !.MDToken = token ]

\* The MD handler of pkg/handlers/handlers.go, which issues no archive token.
RecordMDDecisionNoArchiveToken(leaveReq, req, token) ==
  [ leaveReq EXCEPT
      !.MDDecision = req.Status,
      !.MDApproved = (req.Status = StatusApproved),
      !.Status = StatusAfterMD(req.Status = StatusApproved) ]

RecordMDDecision(leaveReq, req, token) ==
  [ leaveReq EXCEPT
      !.MDDecision = req.Status,
      !.MDApproved = (req.Status = StatusApproved),
      !.Status = StatusAfterMD(req.Status = StatusApproved),
      !.FinalHRToken = token ]

\* The column a stage's action looks its token up in, and the column of the
\* token it generates.
LookupColumn(stage) ==
  CASE stage = "action" -> "request_token"
    [] stage = "hr-action" -> "hr_token"
    [] stage = "md-action" -> "md_token"

IssuedColumn(stage) ==
  CASE stage = "action" -> "hr_token"
    [] stage = "hr-action" -> "md_token"
    [] stage = "md-action" -> "final_hr_token"

Updated(call) ==
  CASE call.stage = "action" ->
         RecordManagerDecision(call.leaveReq, call.req, NewUUID(call.leaveReq.ID))
    [] call.stage = "hr-action" ->
         RecordHRDecision(call.leaveReq, call.req, NewUUID(call.leaveReq.ID))
    [] call.stage = "md-action" ->
         RecordMDDecision(call.leaveReq, call.req, NewUUID(call.leaveReq.ID))

\* An MD handler that sends the archive link back to the MD.
DispatchedArchiveToMD(call) ==
  LET r == Updated(call)
  IN CASE call.stage = "action" ->
            Notification(r.HREmail, r.StaffName, "approve_hr.html", r.HRToken)
       [] call.stage = "hr-action" ->
            Notification(r.MDEmail, r.StaffName, "approve_md.html", r.MDToken)
       [] call.stage = "md-action" ->
            Notification(r.MDEmail, r.StaffName, "final_archive.html",
                         r.FinalHRToken)

\* The goroutine each handler starts after a successful save.
Dispatched(call) ==
  LET r == Updated(call)
  IN CASE call.stage = "action" ->
            Notification(r.HREmail, r.StaffName, "approve_hr.html", r.HRToken)
       [] call.stage = "hr-action" ->
            Notification(r.MDEmail, r.StaffName, "approve_md.html", r.MDToken)
       [] call.stage = "md-action" ->
            Notification(r.HREmail, r.StaffName, "final_archive.html",
                         r.FinalHRToken)

\* The status field of the 200 body: the HR handler's body has none.
RepliedStatus(call) ==
  IF call.stage = "hr-action" THEN "" ELSE Updated(call).Status

\* A save whose UPDATE has no primary-key condition: the status it computed
\* lands in every row of the table.
SaveRowWithoutKey(call, dbOk) ==
  LET r == Updated(call)
      stored == CHOOSE o \in leave_requests : o.ID = r.ID
  IN IF dbOk /\ UniqueOk(r, OtherRows(r.ID))
     THEN /\ leave_requests' =
               { [o EXCEPT !.Status = r.Status] : o \in OtherRows(r.ID) }
                 \cup {r}
          /\ uuids' = [uuids EXCEPT ![r.ID] = @ + 1]
          /\ outbox' = outbox \cup {Dispatched(call)}
          /\ last' = Reply(call.stage, 200, r.ID, call.req.Status,
                           call.req.Email, RepliedStatus(call), NewUUID(r.ID),
                           Column(call.leaveReq, IssuedColumn(call.stage)),
                           Column(stored, IssuedColumn(call.stage)))
     ELSE /\ last' = ErrorReply(call.stage, 500)
          /\ UNCHANGED <<leave_requests, uuids, outbox>>

\* A handler that starts its notification before it looks at the result of
\* the save.
SaveRowNotifyingFirst(call, dbOk) ==
  LET r == Updated(call)
      stored == CHOOSE o \in leave_requests : o.ID = r.ID
  IN /\ outbox' = outbox \cup {Dispatched(call)}
     /\ IF dbOk /\ UniqueOk(r, OtherRows(r.ID))
        THEN /\ leave_requests' = OtherRows(r.ID) \cup {r}
             /\ uuids' = [uuids EXCEPT ![r.ID] = @ + 1]
             /\ last' = Reply(call.stage, 200, r.ID, call.req.Status,
                              call.req.Email, RepliedStatus(call),
                              NewUUID(r.ID),
                              Column(call.leaveReq, IssuedColumn(call.stage)),
                              Column(stored, IssuedColumn(call.stage)))
        ELSE /\ last' = ErrorReply(call.stage, 500)
             /\ UNCHANGED <<leave_requests, uuids>>

\* A save that leaves the stored row alone when it is no longer the row the
\* handler read (the first writer wins), and answers as if it had written.
SaveRowFirstWriterWins(call, dbOk) ==
  LET r == Updated(call)
      stored == CHOOSE o \in leave_requests : o.ID = r.ID
  IN IF dbOk /\ UniqueOk(r, OtherRows(r.ID))
     THEN /\ leave_requests' =
               IF stored = call.leaveReq
               THEN OtherRows(r.ID) \cup {r} ELSE leave_requests
          /\ uuids' = [uuids EXCEPT ![r.ID] = @ + 1]
          /\ outbox' = outbox \cup {Dispatched(call)}
          /\ last' = Reply(call.stage, 200, r.ID, call.req.Status,
                           call.req.Email, RepliedStatus(call), NewUUID(r.ID),
                           Column(call.leaveReq, IssuedColumn(call.stage)),
                           Column(stored, IssuedColumn(call.stage)))
     ELSE /\ last' = ErrorReply(call.stage, 500)
          /\ UNCHANGED <<leave_requests, uuids, outbox>>

\* The save and what follows it in an action handler: fill in the row that
\* was read, generate the next token, and DB.Save, which writes every column
\* of the row with the call's primary key; then the notification goroutine
\* starts and 200 is answered.
SaveRow(call, dbOk) ==
  LET r == Updated(call)
      stored == CHOOSE o \in leave_requests : o.ID = r.ID
  IN IF dbOk /\ UniqueOk(r, OtherRows(r.ID))
     THEN /\ leave_requests' = OtherRows(r.ID) \cup {r}
          /\ uuids' = [uuids EXCEPT ![r.ID] = @ + 1]
          /\ outbox' = outbox \cup {Dispatched(call)}
          /\ last' = Reply(call.stage, 200, r.ID, call.req.Status,
                           call.req.Email, RepliedStatus(call), NewUUID(r.ID),
                           Column(call.leaveReq, IssuedColumn(call.stage)),
                           Column(stored, IssuedColumn(call.stage)))
     ELSE /\ last' = ErrorReply(call.stage, 500)
          /\ UNCHANGED <<leave_requests, uuids, outbox>>

Call(stage, req, leaveReq) ==
  [ stage |-> stage, req |-> req, leaveReq |-> leaveReq ]

\* An action handler that runs from its lookup to its response with no other
\* request in between: 404 if no row has the token, otherwise the save.
Serve(stage, req, dbOk) ==
  LET leaveReq == First(LookupColumn(stage), req.Token)
  IN /\ IF leaveReq = NoRow
        THEN /\ last' = ErrorReply(stage, 404)
             /\ UNCHANGED <<leave_requests, uuids, outbox>>
        ELSE SaveRow(Call(stage, req, leaveReq), dbOk)
     /\ UNCHANGED <<nextId, uniqueIndex, inflight, env, users, signing, mailLog>>

\* The same, while the UUIDs of the model last.
Handle(stage, req, dbOk) ==
  /\ First(LookupColumn(stage), req.Token) # NoRow
       => Generated + Cardinality(inflight) < MaxTokens
  /\ Serve(stage, req, dbOk)

HandleLineManagerAction(req, dbOk) == Handle("action", req, dbOk)

HandleHRManagerAction(req, dbOk) == Handle("hr-action", req, dbOk)

HandleMDAction(req, dbOk) == Handle("md-action", req, dbOk)

\* The same handlers in two steps, for requests served concurrently: the
\* lookup (which answers 404 by itself), and later the save of the row as it
\* was read.
ReadRow(stage, req) ==
  LET leaveReq == First(LookupColumn(stage), req.Token)
  IN /\ leaveReq # NoRow
     /\ Generated + Cardinality(inflight) < MaxTokens
     /\ Cardinality(inflight) < MaxInflight
     /\ inflight' = inflight \cup {Call(stage, req, leaveReq)}
     /\ UNCHANGED <<leave_requests, nextId, uuids, uniqueIndex, outbox, last,
                    env, users, signing, mailLog>>

WriteRow(call, dbOk) ==
  /\ call \in inflight
  /\ inflight' = inflight \ {call}
  /\ SaveRow(call, dbOk)
  /\ UNCHANGED <<nextId, uniqueIndex, env, users, signing, mailLog>>

\* Tokens a caller presents: the empty string and every UUID stored so far
\* (still in its row, or overwritten since).
TokenInputs ==
  {NoToken} \cup
  { t \in (DOMAIN uuids) \X (0 .. MaxTokens) : t[2] <= uuids[t[1]] }

ManagerRequests ==
  { ActionRequest(t, d, e) : t \in TokenInputs, d \in Decisions, e \in HREmails }

HRRequests ==
  { ActionRequest(t, d, e) : t \in TokenInputs, d \in Decisions, e \in MDEmails }

MDRequests ==
  { ActionRequest(t, d, "") : t \in TokenInputs, d \in Decisions }

Requests(stage) ==
  CASE stage = "action" -> ManagerRequests
    [] stage = "hr-action" -> HRRequests
    [] stage = "md-action" -> MDRequests

Stages == {"action", "hr-action", "md-action"}

\* ------------------------------------------------------------------- mail
\* The senders of the mail service return an error, "" standing for nil.
\* mailOk is whether the SMTP server takes the message.
LoadSMTPConfig == IF env.SMTP THEN "" ELSE "missing required SMTP configuration"

\* A sender that dials without looking at the configuration it loaded.
dialAndSendUnchecked(mailOk) == IF ~mailOk THEN "failed to send email" ELSE ""

dialAndSend(mailOk) ==
  IF LoadSMTPConfig # "" THEN "SMTP configuration error"
  ELSE IF ~mailOk THEN "failed to send email"
  ELSE ""

sendApprovalEmail(n, mailOk) ==
  IF n.to = "" \/ n.name = "" \/ n.token = NoToken
  THEN "missing required email parameters"
  ELSE IF ~env.BASE_URL THEN "BASE_URL environment variable not set"
  ELSE dialAndSend(mailOk)

SendToManager(n, mailOk) ==
  IF n.to = "" THEN "manager email is required"
  ELSE sendApprovalEmail(n, mailOk)

\* SendToHR, SendToMD and SendFinalArchiveToHR, which differ in their texts.
SendToNext(n, mailOk) ==
  IF n.to = "" THEN "email is required"
  ELSE IF ~env.BASE_URL THEN "BASE_URL environment variable not set"
  ELSE dialAndSend(mailOk)

Logged(n, error) == [ n |-> n, error |-> error ]

\* Notifications whose goroutine has not run yet.
Waiting == outbox \ { e.n : e \in mailLog }

\* A goroutine that undoes its handler's write when the send fails: it
\* deletes the row that holds the token it could not send.
GoroutineCompensating(n, mailOk) ==
  LET error == IF n.page = "approve.html"
               THEN SendToManager(n, mailOk) ELSE SendToNext(n, mailOk)
  IN /\ n \in Waiting
     /\ mailLog' = mailLog \cup { Logged(n, error) }
     /\ leave_requests' =
          IF error = "" THEN leave_requests
          ELSE { r \in leave_requests :
                   \A col \in TokenColumns : Column(r, col) # n.token }
     /\ UNCHANGED <<nextId, uuids, uniqueIndex, inflight, outbox, last, env,
                    users, signing>>

\* The goroutine a handler started: it calls the sender of its stage once and
\* logs the outcome.
Goroutine(n, mailOk) ==
  /\ n \in Waiting
  /\ mailLog' = mailLog \cup
       { Logged(n, IF n.page = "approve.html"
                   THEN SendToManager(n, mailOk) ELSE SendToNext(n, mailOk)) }
  /\ UNCHANGED <<leave_requests, nextId, uuids, uniqueIndex, inflight, outbox,
                 last, env, users, signing>>

\* Texts a caller can send in "status": the handlers decode any string.
DecisionTexts == Decisions \cup {"approved", ""}

TextRequests(stage) ==
  { ActionRequest(t, d, e) :
      t \in TokenInputs, d \in DecisionTexts,
      e \in { r.Email : r \in Requests(stage) } }

\* ------------------------------------------------------------- recipients
\* The stage whose action the page of a notification posts to.
StageOf(page) ==
  CASE page = "approve.html" -> "action"
    [] page = "approve_hr.html" -> "hr-action"
    [] page = "approve_md.html" -> "md-action"

DecisionOf(r, stage) ==
  CASE stage = "action" -> r.ManagerDecision
    [] stage = "hr-action" -> r.HRDecision
    [] stage = "md-action" -> r.MDDecision

Delivered(n) == \E e \in mailLog : e.n = n /\ e.error = ""

\* The goroutine of a notification runs and the mail server takes the message.
Deliver == \E n \in outbox : Goroutine(n, TRUE)

\* The recipient of a delivered notification opens its page, which fetches
\* the record by the link's token, and posts a decision (with the next
\* party's address) that the store saves.  A recipient decides once: not
\* again when the record already holds the decision of the stage.
RecipientActs(n, decision, email) ==
  /\ Delivered(n)
  /\ n.page # "final_archive.html"
  /\ LET leaveReq == First(LookupColumn(StageOf(n.page)), n.token)
     IN /\ leaveReq # NoRow
        /\ DecisionOf(leaveReq, StageOf(n.page)) = ""
  /\ Serve(StageOf(n.page), ActionRequest(n.token, decision, email), TRUE)

\* The address the page of a stage sends with its decision.
NextEmails(page) ==
  CASE page = "approve.html" -> HREmails
    [] page = "approve_hr.html" -> MDEmails
    [] OTHER -> {""}

Recipients ==
  \E n \in outbox : \E decision \in Decisions :
    \E email \in NextEmails(n.page) : RecipientActs(n, decision, email)

\* Bodies of the leave form, whose fields the server does not validate.
FormBodies ==
  { PlainBody, [PlainBody EXCEPT !.ManagerEmail = ""],
    [PlainBody EXCEPT !.StaffName = ""] }

\* Bodies of Submit with and without the manager's address.
MailBodies == { PlainBody, [PlainBody EXCEPT !.ManagerEmail = ""] }

\* Action requests whose "hr_email" / "md_email" may be missing.
FormRequests(stage) ==
  Requests(stage) \cup
    { ActionRequest(t, d, "") : t \in TokenInputs, d \in Decisions }

\* ------------------------------------------------------------------ users
\* The decoded body of POST /api/signup.
SignupRequest(name, email, password, phone) ==
  [ FullName |-> name, Email |-> email, Password |-> password,
    PhoneNumber |-> phone ]

SignupEmails == {"a@x.com", "b@x.com"}

Passwords == {"pw1", "pw2"}

SignupRequests ==
  { SignupRequest(name, email, password, "0800") :
      name \in {"Ada", "Bo"}, email \in SignupEmails, password \in Passwords }

\* bcrypt.GenerateFromPassword: a hash of the password under a fresh salt.
Salts == {1, 2}

Hash(password, salt) == <<"bcrypt", salt, password>>

\* Readings of time.Now().
Times == {1, 2}

\* The row Signup creates; the store assigns the primary key.
NewUser(req, id, salt, now) ==
  [ ID |-> id, FullName |-> req.FullName, Email |-> req.Email,
    Password |-> Hash(req.Password, salt), PhoneNumber |-> req.PhoneNumber,
    CreatedAt |-> now ]

UsersOf(email) == { u \in users : u.Email = email }

SignupReply(code, id, email) ==
  Reply("signup", code, id, "", email, "", NoToken, NoToken, NoToken)

\* A Signup that looks for no existing user.
SignupLookupUnchecked(req) ==
  /\ Cardinality(users) + Cardinality(signing) < MaxUsers
  /\ req \notin signing
  /\ signing' = signing \cup {req}
  /\ UNCHANGED <<leave_requests, nextId, uuids, uniqueIndex, inflight, outbox,
                 last, env, mailLog, users>>

\* Signup up to its existence check: 409 when a user of the email is found,
\* otherwise the call goes on to hash and create.
SignupLookup(req) ==
  IF UsersOf(req.Email) # {}
  THEN /\ last' = SignupReply(409, 0, req.Email)
       /\ UNCHANGED <<leave_requests, nextId, uuids, uniqueIndex, inflight,
                      outbox, env, mailLog, users, signing>>
  ELSE /\ Cardinality(users) + Cardinality(signing) < MaxUsers
       /\ req \notin signing
       /\ signing' = signing \cup {req}
       /\ UNCHANGED <<leave_requests, nextId, uuids, uniqueIndex, inflight,
                      outbox, last, env, mailLog, users>>

\* The rest of Signup: the hash (500 when bcrypt fails), the insert (500 when
\* the store fails) and the 201.
SignupCreate(req, salt, now, hashOk, dbOk) ==
  /\ req \in signing
  /\ signing' = signing \ {req}
  /\ IF hashOk /\ dbOk
     THEN /\ users' = users \cup
               { NewUser(req, Cardinality(users) + 1, salt, now) }
          /\ last' = SignupReply(201, Cardinality(users) + 1, req.Email)
     ELSE /\ last' = SignupReply(500, 0, req.Email)
          /\ UNCHANGED users
  /\ UNCHANGED <<leave_requests, nextId, uuids, uniqueIndex, inflight, outbox,
                 env, mailLog>>

\* The decoded body of POST /api/login.
LoginRequest(email, password) == [ Email |-> email, Password |-> password ]

LoginRequests ==
  { LoginRequest(email, password) :
      email \in SignupEmails, password \in Passwords }

ErrInvalidCredentials == "invalid email or password"

ErrRequestNotFound == "request not found"

\* What Login writes: the status code and the JSON body, an "error" text or
\* the "message" with the user's name.
LoginReply(code, error, message, user) ==
  [ op |-> "login", code |-> code, id |-> 0, decision |-> "", email |-> "",
    status |-> "", issued |-> NoToken, read |-> NoToken, replaced |-> NoToken,
    body |-> [ error |-> error, message |-> message, user |-> user ] ]

\* DB.Where("email = ?").First: of the rows of the email, the one with the
\* lowest primary key.
FirstUser(email) ==
  CHOOSE u \in UsersOf(email) : \A v \in UsersOf(email) : u.ID <= v.ID

\* bcrypt.CompareHashAndPassword: the hash is one of this password.
CompareHashAndPassword(hash, password) == hash[3] = password

\* A Login that tells the caller when the email has no user.
LoginAnswerNamingUnknownEmail(req) ==
  IF UsersOf(req.Email) = {}
  THEN LoginReply(404, ErrRequestNotFound, "", "")
  ELSE IF ~CompareHashAndPassword(FirstUser(req.Email).Password, req.Password)
  THEN LoginReply(401, ErrInvalidCredentials, "", "")
  ELSE LoginReply(200, "", "login successful", FirstUser(req.Email).FullName)

\* Login's answer: 401 with the one error text when no user has the email
\* and when the password does not match the stored hash, 200 otherwise.
LoginAnswer(req) ==
  IF UsersOf(req.Email) = {}
  THEN LoginReply(401, ErrInvalidCredentials, "", "")
  ELSE IF ~CompareHashAndPassword(FirstUser(req.Email).Password, req.Password)
  THEN LoginReply(401, ErrInvalidCredentials, "", "")
  ELSE LoginReply(200, "", "login successful", FirstUser(req.Email).FullName)

\* Login reads the users table and writes nothing but its answer.
Login(req) ==
  /\ last' = LoginAnswer(req)
  /\ UNCHANGED <<leave_requests, nextId, uuids, uniqueIndex, inflight, outbox,
                 env, mailLog, users, signing>>

\* ------------------------------------------------------------------ claims
Row(id) == CHOOSE r \in leave_requests : r.ID = id

Submitted == last.op = "submit" /\ last.code = 202

Acted(stage) == last.op = stage /\ last.code = 200

\* Token t was generated by a stage action, which stored it and sent it on.
Issued(t) == \E n \in outbox : n.page # "approve.html" /\ n.token = t

Resolves(op, col, token, id) ==
  FetchReply(op, col, token).code = 200 /\ FetchReply(op, col, token).id = id

\* C1: after every Submit answered 202, the request_token of the response
\* resolves through GET /api/leave/details to the row just stored, whose
\* status is "Pending", whose three decision fields are unset and whose three
\* approval flags are false.
C1_SubmittedRowIsPending ==
  Submitted =>
    /\ Resolves("details", "request_token", last.issued, last.id)
    /\ Row(last.id).Status = StatusPending
    /\ Row(last.id).ManagerDecision = ""
    /\ Row(last.id).HRDecision = ""
    /\ Row(last.id).MDDecision = ""
    /\ ~Row(last.id).ManagerApproved
    /\ ~Row(last.id).HRApproved
    /\ ~Row(last.id).MDApproved

\* C2: after every manager action that found its row and saved it, the stored
\* and the returned status are "Pending HR Review" if the decision sent was
\* "Approved" and "Rejected by Manager - Pending HR Filing" otherwise, and the
\* row holds a newly generated, non-empty HR token that differs from the
\* row's request token and resolves through GET /api/leave/hr-details to the
\* same row.
C2_ManagerAction ==
  Acted("action") =>
    /\ Row(last.id).Status =
         IF last.decision = StatusApproved
         THEN StatusPendingHRReview ELSE StatusRejectedByManager
    /\ last.status = Row(last.id).Status
    /\ Row(last.id).HRToken = last.issued
    /\ last.issued # NoToken
    /\ last.issued # last.replaced
    /\ last.issued # Row(last.id).RequestToken
    /\ Resolves("hr-details", "hr_token", last.issued, last.id)

C2_Witness ==
  /\ Acted("action")
  /\ last.decision = StatusRejected
  /\ Row(last.id).Status = StatusRejectedByManager
  /\ Row(last.id).HRToken # NoToken

\* C3: after every HR action that found its row and saved it, the row holds
\* the decision and the MD address that were sent, its status is "Pending MD
\* Final Approval" if the decision was "Approved" and "Rejected by HR -
\* Pending MD Review" otherwise, and it holds a newly generated, non-empty MD
\* token that resolves through GET /api/leave/md-details to the same row.
C3_HRAction ==
  Acted("hr-action") =>
    /\ Row(last.id).HRDecision = last.decision
    /\ Row(last.id).MDEmail = last.email
    /\ Row(last.id).Status =
         IF last.decision = StatusApproved
         THEN StatusPendingMDApproval ELSE StatusRejectedByHR
    /\ Row(last.id).MDToken = last.issued
    /\ last.issued # NoToken
    /\ last.issued # last.replaced
    /\ Resolves("md-details", "md_token", last.issued, last.id)

C3_Witness ==
  /\ Acted("hr-action")
  /\ last.decision = StatusRejected
  /\ Issued(Row(last.id).HRToken)
  /\ Row(last.id).Status = StatusRejectedByHR
  /\ Row(last.id).MDEmail \in MDEmails
  /\ Row(last.id).MDToken # NoToken

\* C4: after every MD action that found its row and saved it, the status is
\* "Fully Approved" if the decision was "Approved" and "Rejected by MD"
\* otherwise, and the row holds a non-empty final-archive token that resolves
\* through GET /api/leave/final-details to the same row.
C4_MDAction ==
  Acted("md-action") =>
    /\ Row(last.id).Status =
         IF last.decision = StatusApproved
         THEN StatusFullyApproved ELSE StatusRejectedByMD
    /\ last.status = Row(last.id).Status
    /\ Row(last.id).FinalHRToken = last.issued
    /\ last.issued # NoToken
    /\ Resolves("final-details", "final_hr_token", last.issued, last.id)

C4_Witness ==
  /\ Acted("md-action")
  /\ last.decision = StatusRejected
  /\ Row(last.id).Status = StatusRejectedByMD
  /\ Issued(Row(last.id).HRToken)
  /\ Issued(Row(last.id).MDToken)
  /\ Row(last.id).FinalHRToken # NoToken

\* C5: in every reachable state no non-empty token is held by two rows, nor
\* by two token columns of one row or of two rows.
C5_TokensUnique ==
  \A r1, r2 \in leave_requests : \A c1, c2 \in TokenColumns :
    (Column(r1, c1) # NoToken /\ (r1 # r2 \/ c1 # c2))
      => Column(r1, c1) # Column(r2, c2)

\* C6: stage actions record in workflow order, whatever token they are sent:
\* the HR action records its decision only in a row that has a manager
\* decision and an HR token, and the MD action only in a row that has an HR
\* decision and an MD token.
C6_StageOrder ==
  /\ Acted("hr-action") =>
       (Row(last.id).ManagerDecision # "" /\ Row(last.id).HRToken # NoToken)
  /\ Acted("md-action") =>
       (Row(last.id).HRDecision # "" /\ Row(last.id).MDToken # NoToken)

\* The row of r's primary key after the step.
After(r) == CHOOSE n \in leave_requests' : n.ID = r.ID

\* C7: a decision that a stage action has recorded as "Approved" or
\* "Rejected" (with the token it issued) is not changed by any later step.
C7_DecisionsImmutable ==
  [][ \A r \in leave_requests :
        /\ (r.ManagerDecision \in Decisions /\ Issued(r.HRToken))
             => After(r).ManagerDecision = r.ManagerDecision
        /\ (r.HRDecision \in Decisions /\ Issued(r.MDToken))
             => After(r).HRDecision = r.HRDecision
        /\ (r.MDDecision \in Decisions /\ Issued(r.FinalHRToken))
             => After(r).MDDecision = r.MDDecision ]_vars

\* C8: an HR, MD or final-archive token that a stage action has issued to a
\* row is not replaced by any later step.
C8_TokensIssuedOnce ==
  [][ \A r \in leave_requests :
        /\ Issued(r.HRToken) => After(r).HRToken = r.HRToken
        /\ Issued(r.MDToken) => After(r).MDToken = r.MDToken
        /\ Issued(r.FinalHRToken)
             => After(r).FinalHRToken = r.FinalHRToken ]_vars

\* The HR notification that carried token t.
SentToHR(t) == \E n \in outbox : n.page = "approve_hr.html" /\ n.token = t

\* The manager action finished last was answered 200 and replaced an HR token
\* that an earlier manager action had stored and sent to HR.
ManagerActedAgain == Acted("action") /\ SentToHR(last.replaced)

ManagerActionsRaced == ManagerActedAgain /\ last.read # last.replaced

PageOf(col) ==
  CASE col = "request_token" -> "approve.html"
    [] col = "hr_token" -> "approve_hr.html"
    [] col = "md_token" -> "approve_md.html"
    [] col = "final_hr_token" -> "final_archive.html"

\* Token t was generated by the server for the stage that looks tokens up in
\* column col (by Submit for request_token, by a stage action otherwise).
IssuedFor(col, t) == \E n \in outbox : n.page = PageOf(col) /\ n.token = t

FetchOps ==
  { <<"details", "request_token">>, <<"hr-details", "hr_token">>,
    <<"md-details", "md_token">>, <<"final-details", "final_hr_token">> }

\* C11: a token the server generated for one stage resolves at no other
\* stage: the Fetch of every other stage answers 404 for it, and the action
\* of every other stage finds no row for it.
C11_TokenResolvesAtOwnStageOnly ==
  \A col \in TokenColumns : \A t \in TokenInputs :
    IssuedFor(col, t) =>
      /\ \A f \in FetchOps :
           f[2] # col => FetchReply(f[1], f[2], t).code = 404
      /\ \A stage \in Stages :
           LookupColumn(stage) # col => First(LookupColumn(stage), t) = NoRow

\* C12: a stage action called with a token that the server never generated
\* for that stage is answered 404 and leaves the table as it was, and a Fetch
\* called with such a token (a Fetch with no token is answered 400 before the
\* store is queried) is answered 404.
C12_UnknownTokenNotFound ==
  [][ /\ \A stage \in Stages : \A req \in Requests(stage) :
           (~IssuedFor(LookupColumn(stage), req.Token) /\ Handle(stage, req, TRUE))
             => (last'.code = 404 /\ leave_requests' = leave_requests)
      /\ \A f \in FetchOps : \A t \in TokenInputs \ {NoToken} :
           (~IssuedFor(f[2], t) /\ Fetch(f[1], f[2], t)) => last'.code = 404
    ]_vars

\* The handler that finished last is a Fetch.
Fetched == last.op \in { f[1] : f \in FetchOps }

\* C13: a Fetch, with any token and at any point of the workflow, leaves the
\* table, the id sequence and the notifications as they were, and the same
\* Fetch called again with the token of any row finds the record it would
\* have found before.
C13_FetchReadOnly ==
  [][ Fetched' =>
        /\ leave_requests' = leave_requests
        /\ nextId' = nextId
        /\ uuids' = uuids
        /\ outbox' = outbox
        /\ \A f \in FetchOps :
             f[1] = last'.op =>
               \A r \in leave_requests :
                 First(f[2], Column(r, f[2]))' = First(f[2], Column(r, f[2]))
    ]_vars

C13_Witness ==
  /\ last.op = "hr-details"
  /\ last.code = 200
  /\ Row(last.id).ManagerDecision \in Decisions
  /\ Issued(Row(last.id).HRToken)

\* The workflow position of a status.
Rank(status) ==
  CASE status = StatusPending -> 0
    [] status \in {StatusPendingHRReview, StatusRejectedByManager} -> 1
    [] status \in {StatusPendingMDApproval, StatusRejectedByHR} -> 2
    [] status \in {StatusFullyApproved, StatusRejectedByMD} -> 3

\* Row r got where it is through the stage actions, each called with the
\* token the stage before it had issued.
InOrder(r) ==
  /\ Rank(r.Status) >= 1 => Issued(r.HRToken)
  /\ Rank(r.Status) >= 2 => Issued(r.MDToken)
  /\ Rank(r.Status) >= 3 => Issued(r.FinalHRToken)

\* C14: no step lowers the rank of a request's status; in particular a
\* request whose status is "Fully Approved" or "Rejected by MD" keeps a
\* terminal status, also when its earlier stage tokens are used again.
C14_RankNeverRegresses ==
  [][ \A r \in leave_requests :
        InOrder(r) => Rank(After(r).Status) >= Rank(r.Status) ]_vars

\* C15: in every row each approval flag is true exactly when the decision
\* field of its stage is "Approved".
C15_FlagsMirrorDecisions ==
  \A r \in leave_requests :
    /\ r.ManagerApproved <=> (r.ManagerDecision = StatusApproved)
    /\ r.HRApproved <=> (r.HRDecision = StatusApproved)
    /\ r.MDApproved <=> (r.MDDecision = StatusApproved)

\* The notification that carried the token generated last for row r.
LastIssued(r) == CHOOSE n \in outbox : n.token = <<r.ID, uuids[r.ID]>>

Label(decision, approved, rejected) ==
  IF decision = StatusApproved THEN approved ELSE rejected

\* C16: in every row the status is determined by the decision fields and by
\* the stage whose token was generated last for the row: "Pending" when that
\* is the request token, the manager-stage label of the manager decision when
\* it is an HR token, the HR-stage label of the HR decision when it is an MD
\* token, and the terminal label of the MD decision when it is a
\* final-archive token.
C16_StatusDerivable ==
  \A r \in leave_requests :
    r.Status =
      CASE LastIssued(r).page = "approve.html" -> StatusPending
        [] LastIssued(r).page = "approve_hr.html" ->
             Label(r.ManagerDecision, StatusPendingHRReview, StatusRejectedByManager)
        [] LastIssued(r).page = "approve_md.html" ->
             Label(r.HRDecision, StatusPendingMDApproval, StatusRejectedByHR)
        [] LastIssued(r).page = "final_archive.html" ->
             Label(r.MDDecision, StatusFullyApproved, StatusRejectedByMD)

\* A manager action, an HR action with the HR token it issued, and then the
\* manager action again have been saved for a row.
C16_Witness ==
  \E r \in leave_requests :
    /\ SentToHR(<<r.ID, 1>>)
    /\ r.MDToken = <<r.ID, 2>>
    /\ r.HRToken = <<r.ID, 3>>
    /\ LastIssued(r).page = "approve_hr.html"
    /\ r.Status = StatusRejectedByManager
    /\ r.HRDecision = StatusApproved

\* C17: in every row that holds an HR token the HR address is present, and
\* in every row that holds an MD token the MD address is present.
C17_EmailBeforeToken ==
  \A r \in leave_requests :
    /\ r.HRToken # NoToken => r.HREmail # ""
    /\ r.MDToken # NoToken => r.MDEmail # ""

\* C18: a Submit whose body has no manager address or no staff name is
\* answered 400, stores no row and dispatches no notification.
C18_SubmitValidates ==
  [][ \A body \in FormBodies :
        ((body.ManagerEmail = "" \/ body.StaffName = "")
           /\ SubmitLeaveRequest(body, TRUE))
          => /\ last'.code = 400
             /\ leave_requests' = leave_requests
             /\ outbox' = outbox ]_vars

\* The log entry of the notification that the handler finished last
\* dispatched, once its goroutine has run.
LastMail == { e \in mailLog : e.n.token = last.issued }

ConfigErrors ==
  { "BASE_URL environment variable not set", "SMTP configuration error" }

\* C19: the goroutine of a notification, whether its send succeeds or fails
\* (on the transport, on a missing configuration value or on an empty
\* recipient), changes neither the response of any handler nor the table nor
\* what was dispatched, and a notification whose send was attempted is never
\* attempted again: its log entry stays the only one.
C19_NotificationFailureHarmless ==
  [][ /\ mailLog' # mailLog =>
           /\ last' = last
           /\ leave_requests' = leave_requests
           /\ nextId' = nextId
           /\ uuids' = uuids
           /\ outbox' = outbox
      /\ \A e \in mailLog : \A f \in mailLog' : f.n = e.n => f = e ]_vars

\* A manager action was answered 200 and its row is stored although the send
\* of its notification failed on the transport, after the send of the
\* Submit's notification had failed on the empty recipient.
C19_Witness ==
  /\ Acted("action")
  /\ Row(last.id).HRToken = last.issued
  /\ \E e \in LastMail : e.error = "failed to send email"
  /\ \E e \in mailLog : e.error = "manager email is required"

C21_ResponseBeforeNotification ==
  [][ \A n \in outbox' \ outbox :
        /\ n \in Waiting'
        /\ last'.code \in {200, 202}
        /\ last'.issued = n.token ]_vars

\* The HR action has answered 200 and the notification to the MD has not
\* started; the manager's and the HR's own notifications were delivered.
C21_Witness ==
  /\ Acted("hr-action")
  /\ \E n \in Waiting : n.token = last.issued /\ n.page = "approve_md.html"
  /\ \E n \in outbox : n.page = "approve_hr.html" /\ Delivered(n)

\* A step in which the handler of `stage` saved its row and answered 200.
Saved(stage) ==
  /\ outbox' # outbox
  /\ last'.op = stage
  /\ last'.code = 200

\* C22: every MD action that saves sets the status from its own decision
\* alone ("Fully Approved" for "Approved", "Rejected by MD" otherwise), and
\* the manager decision and the HR decision the record held before the save
\* are the ones it holds after it.
C22_FinalStatusFromMDAlone ==
  [][ Saved("md-action") =>
        /\ After(Row(last'.id)).Status =
             IF last'.decision = StatusApproved
             THEN StatusFullyApproved ELSE StatusRejectedByMD
        /\ After(Row(last'.id)).ManagerDecision = Row(last'.id).ManagerDecision
        /\ After(Row(last'.id)).HRDecision = Row(last'.id).HRDecision ]_vars

FlagOf(r, stage) ==
  CASE stage = "action" -> r.ManagerApproved
    [] stage = "hr-action" -> r.HRApproved
    [] stage = "md-action" -> r.MDApproved

RejectionLabel(stage) ==
  CASE stage = "action" -> StatusRejectedByManager
    [] stage = "hr-action" -> StatusRejectedByHR
    [] stage = "md-action" -> StatusRejectedByMD

OwnFields(stage) ==
  CASE stage = "action" ->
         {"ManagerDecision", "ManagerApproved", "HREmail", "HRToken", "Status"}
    [] stage = "hr-action" ->
         {"HRDecision", "HRApproved", "MDEmail", "MDToken", "Status"}
    [] stage = "md-action" ->
         {"MDDecision", "MDApproved", "FinalHRToken", "Status"}

\* C24: a stage action that saves leaves every field of the stored row that
\* is not of its own stage (the primary key, the request token, the
\* submission fields, the other stages' decisions, flags, addresses and
\* tokens) as the store held it before the save.
C24_StageChangesOwnFields ==
  [][ \A stage \in Stages :
        Saved(stage) =>
          \A f \in (DOMAIN Row(last'.id)) \ OwnFields(stage) :
            After(Row(last'.id))[f] = Row(last'.id)[f] ]_vars

\* The notifications that carry token t.
Carrying(t) == { n \in outbox : n.token = t }

\* C25: after every Submit answered 202 and every stage action answered 200,
\* exactly one notification carries the token the operation stored, and it
\* is addressed to the next party with that party's page: the manager
\* address of the form and approve.html; the HR address of the manager's
\* request and approve_hr.html; the MD address of the HR's request and
\* approve_md.html; the HR address stored in the row and final_archive.html.
\* One notification was handed over per operation that saved.
C25_OneNotificationToNextParty ==
  /\ Submitted =>
        /\ Row(last.id).RequestToken = last.issued
        /\ Carrying(last.issued) =
             { Notification(Row(last.id).ManagerEmail, Row(last.id).StaffName,
                            "approve.html", last.issued) }
  /\ Acted("action") =>
        /\ Row(last.id).HRToken = last.issued
        /\ Carrying(last.issued) =
             { Notification(last.email, Row(last.id).StaffName,
                            "approve_hr.html", last.issued) }
  /\ Acted("hr-action") =>
        /\ Row(last.id).MDToken = last.issued
        /\ Carrying(last.issued) =
             { Notification(last.email, Row(last.id).StaffName,
                            "approve_md.html", last.issued) }
  /\ Acted("md-action") =>
        /\ Row(last.id).FinalHRToken = last.issued
        /\ Carrying(last.issued) =
             { Notification(Row(last.id).HREmail, Row(last.id).StaffName,
                            "final_archive.html", last.issued) }
  /\ Cardinality(outbox) =
       Cardinality(leave_requests) + Sum(uuids, DOMAIN uuids)

\* The MD action answered 200 on a row the manager and the HR acted on, and
\* the archive link went to the HR address, not to the MD's.
C25_Witness ==
  /\ Acted("md-action")
  /\ Row(last.id).HREmail \in HREmails
  /\ Row(last.id).MDEmail \in MDEmails
  /\ \E n \in Carrying(last.issued) :
       n.to = Row(last.id).HREmail /\ n.page = "final_archive.html"
  /\ \E n \in outbox : n.page = "approve_hr.html"
  /\ \E n \in outbox : n.page = "approve_md.html"

\* The workflow of row r is over: a terminal status and all four tokens.
Finalized(r) ==
  /\ r.Status \in {StatusFullyApproved, StatusRejectedByMD}
  /\ \A col \in TokenColumns : Column(r, col) # NoToken

C28_FailedWriteLeavesNoTrace ==
  [][ /\ \A body \in SubmitBodies :
           SubmitLeaveRequest(body, FALSE) =>
             /\ last'.code = 500
             /\ \A f \in FetchOps :
                  FetchReply(f[1], f[2], NewUUID(nextId))'.code = 404
      /\ \A call \in inflight :
           WriteRow(call, FALSE) =>
             /\ last'.code = 500
             /\ \A f \in FetchOps :
                  FetchReply(f[1], f[2], NewUUID(call.leaveReq.ID))'.code = 404
      /\ last'.code = 500 =>
           /\ leave_requests' = leave_requests
           /\ outbox' = outbox
           /\ \A f \in FetchOps : \A t \in TokenInputs :
                FetchReply(f[1], f[2], t)' = FetchReply(f[1], f[2], t) ]_vars

\* The store failed the save of an HR action on a row the manager had acted
\* on: the row has no HR decision and no MD token, and nothing went to the MD.
C28_Witness ==
  /\ last.op = "hr-action"
  /\ last.code = 500
  /\ \E r \in leave_requests :
       /\ Issued(r.HRToken)
       /\ r.HRDecision = ""
       /\ r.MDToken = NoToken
  /\ \A n \in outbox : n.page # "approve_md.html"

\* C29: the empty token resolves no request: every Fetch sent it answers 400
\* and changes nothing, and every stage action sent it finds no row (it
\* answers 400 or 404) and changes nothing, also while rows hold the empty
\* string in the column the action looks up.
C29_EmptyTokenNeverResolves ==
  [][ /\ \A f \in FetchOps :
           Fetch(f[1], f[2], NoToken) =>
             (last'.code = 400 /\ leave_requests' = leave_requests)
      /\ \A stage \in Stages : \A req \in Requests(stage) :
           (req.Token = NoToken /\ Handle(stage, req, TRUE)) =>
             /\ last'.code \in {400, 404}
             /\ leave_requests' = leave_requests
             /\ outbox' = outbox ]_vars

\* C30: a stage action that saves leaves the result of a later stage as the
\* store holds it: a manager action on a row whose MD token an HR action
\* issued leaves the HR decision, the MD address and the MD token, and an HR
\* action on a row whose final-archive token an MD action issued leaves the
\* MD decision and the final-archive token.
C30_LaterStageResultKept ==
  [][ \A r \in leave_requests :
        /\ (Saved("action") /\ last'.id = r.ID /\ Issued(r.MDToken)) =>
             /\ After(r).HRDecision = r.HRDecision
             /\ After(r).MDEmail = r.MDEmail
             /\ After(r).MDToken = r.MDToken
        /\ (Saved("hr-action") /\ last'.id = r.ID /\ Issued(r.FinalHRToken)) =>
             /\ After(r).MDDecision = r.MDDecision
             /\ After(r).FinalHRToken = r.FinalHRToken ]_vars

\* C31: every token a row holds was generated by the server for the column
\* that holds it, and the row a Submit answered 202 for has no HR, MD or
\* final-archive token, no decision and no HR or MD address, whatever the
\* body carried.
C31_SubmitIgnoresWorkflowFields ==
  /\ \A r \in leave_requests : \A col \in TokenColumns :
       Column(r, col) # NoToken => IssuedFor(col, Column(r, col))
  /\ Submitted =>
       /\ \A col \in TokenColumns \ {"request_token"} :
            Column(Row(last.id), col) = NoToken
       /\ Row(last.id).ManagerDecision = ""
       /\ Row(last.id).HRDecision = ""
       /\ Row(last.id).MDDecision = ""
       /\ Row(last.id).HREmail = ""
       /\ Row(last.id).MDEmail = ""

\* The token columns of the stages after the stage of column col.
LaterColumns(col) ==
  CASE col = "request_token" -> {"hr_token", "md_token", "final_hr_token"}
    [] col = "hr_token" -> {"md_token", "final_hr_token"}
    [] col = "md_token" -> {"final_hr_token"}
    [] col = "final_hr_token" -> {}

\* C32: the body of a Fetch answered 200 for the token of one stage holds no
\* token of a later stage: whoever presents a stage's token reads from no
\* Fetch response the HR, MD or final-archive token issued after it.
C32_FetchDisclosesNoLaterToken ==
  \A f \in FetchOps : \A t \in TokenInputs :
    FetchReply(f[1], f[2], t).code = 200 =>
      \A col \in LaterColumns(f[2]) :
        Column(FetchBody(f[1], f[2], t), col) = NoToken

\* C33: a Submit of the form's body that the store does not fail for a
\* reason of its own is answered 202 and its row is stored, whatever rows the
\* table holds and whatever their stages.
C33_SubmitNeverBlocked ==
  [][ SubmitLeaveRequest(PlainBody, TRUE) =>
        /\ last'.code = 202
        /\ \E r \in leave_requests' \ leave_requests :
             r.RequestToken = last'.issued ]_vars

\* C34: every step leaves every stored row other than the row of the request
\* the step answered for (the row a Fetch or a stage action resolved, the row
\* a Submit created) exactly as it was.
C34_RequestsIsolated ==
  [][ \A r \in leave_requests :
        r.ID # last'.id => r \in leave_requests' ]_vars

\* An HR action was saved on row 1 while row 2, submitted before it, is
\* still as its Submit stored it.
C34_Witness ==
  /\ Acted("hr-action")
  /\ last.id = 1
  /\ Row(1).MDToken = last.issued
  /\ \E r \in leave_requests :
       /\ r.ID = 2
       /\ r.Status = StatusPending
       /\ r.HRToken = NoToken

\* ------------------------------------------------------------------ pages
\* The approval pages.  Each page fetches the record of the token in its
\* link and hands the body to its populateUI, which decides from the body
\* whether the decision buttons stay on the page.  data is the body of the
\* page's Fetch; each operator is TRUE when the page hides its buttons.

\* approve.js, populateUI: the manager page locks on any status but Pending.
ManagerPageHidden(data) == data.Status # StatusPending

\* approve_hr.js, populateUI: the HR page hides actionButtons and
\* mdEmailContainer together, on any status but "Pending HR Review".
HRPageHidden(data) == data.Status # StatusPendingHRReview

\* approve_md.js, handleProcessedRequests: the second copy of the HR page's
\* logic, with the same test.
handleProcessedRequests(data) == data.Status # StatusPendingHRReview

\* approve_md.js, populateUI: the MD page locks on the statuses "Approved"
\* and "Rejected".
MDPageHidden(data) == data.Status \in {StatusApproved, StatusRejected}

\* The bodies a page can be handed: those of the Fetch op answered 200.
PageBodies(op, col) ==
  { FetchBody(op, col, t) : t \in TokenInputs } \ {NoRow}

\* C35: the HR page offers its decision buttons and its MD-email input for
\* every record its Fetch returns that holds a manager decision, Approved or
\* Rejected, and no HR decision; both copies of the page's logic agree.
C35_HRPageOpenAfterManagerDecision ==
  \A data \in PageBodies("hr-details", "hr_token") :
    (data.ManagerDecision \in Decisions /\ data.HRDecision = "") =>
      /\ ~HRPageHidden(data)
      /\ ~handleProcessedRequests(data)

\* C36: every approval page hides its buttons for every record its Fetch
\* returns whose decision of the page's stage is recorded: the manager page
\* on a manager decision, the HR page on an HR decision, the MD page on an
\* MD decision.
C36_DecidedStageOffersNoDecision ==
  /\ \A data \in PageBodies("details", "request_token") :
       data.ManagerDecision # "" => ManagerPageHidden(data)
  /\ \A data \in PageBodies("hr-details", "hr_token") :
       data.HRDecision # "" =>
         HRPageHidden(data) /\ handleProcessedRequests(data)
  /\ \A data \in PageBodies("md-details", "md_token") :
       data.MDDecision # "" => MDPageHidden(data)

\* C37: the users table never holds two rows of one email, whatever the
\* interleaving of the Signup calls.
C37_OneUserPerEmail ==
  \A u \in users : \A v \in users : u.Email = v.Email => u = v

Unregistered(req) == UsersOf(req.Email) = {}

WrongPassword(req) ==
  /\ UsersOf(req.Email) # {}
  /\ ~CompareHashAndPassword(FirstUser(req.Email).Password, req.Password)

\* C38: a Login for an email that has no user is answered exactly as a Login
\* for a registered email with a wrong password is (401 and the same body),
\* and a Login of either kind leaves the users table, the calls in progress
\* and the leave requests as they were.
C38_LoginFailuresAlike ==
  [][ \A req \in LoginRequests :
        (Login(req) /\ (Unregistered(req) \/ WrongPassword(req))) =>
          /\ last'.code = 401
          /\ \A other \in LoginRequests :
               (Unregistered(other) \/ WrongPassword(other)) =>
                 LoginAnswer(other) = last'
          /\ users' = users
          /\ signing' = signing
          /\ leave_requests' = leave_requests ]_vars

\* A Login was refused while one email has a user, whose password some
\* request gets wrong, and another email has none.
C38_Witness ==
  /\ last.op = "login"
  /\ last.code = 401
  /\ \E req \in LoginRequests : Unregistered(req)
  /\ \E req \in LoginRequests : WrongPassword(req)

\* ------------------------------------------------------------ specifications
\* Requests served one after the other.
Next ==
  \/ \E body \in SubmitBodies, dbOk \in BOOLEAN : SubmitLeaveRequest(body, dbOk)
  \/ \E t \in TokenInputs : GetLeaveRequestByToken(t)
  \/ \E t \in TokenInputs : GetLeaveRequestByHRToken(t)
  \/ \E t \in TokenInputs : GetLeaveRequestByMDToken(t)
  \/ \E t \in TokenInputs : GetFinalArchiveDetails(t)
  \/ \E req \in ManagerRequests, dbOk \in BOOLEAN :
       HandleLineManagerAction(req, dbOk)
  \/ \E req \in HRRequests, dbOk \in BOOLEAN : HandleHRManagerAction(req, dbOk)
  \/ \E req \in MDRequests, dbOk \in BOOLEAN : HandleMDAction(req, dbOk)

Spec == Init /\ [][Next]_vars

\* Requests served concurrently: the action handlers interleave between their
\* lookup and their save.
NextRace ==
  \/ \E body \in SubmitBodies, dbOk \in BOOLEAN : SubmitLeaveRequest(body, dbOk)
  \/ \E stage \in Stages : \E req \in Requests(stage) : ReadRow(stage, req)
  \/ \E call \in inflight, dbOk \in BOOLEAN : WriteRow(call, dbOk)

SpecRace == Init /\ [][NextRace]_vars

\* Requests served one after the other, with the fields the pages' forms send
\* filled in or left empty.
NextForm ==
  \/ \E body \in FormBodies, dbOk \in BOOLEAN : SubmitLeaveRequest(body, dbOk)
  \/ \E req \in FormRequests("action"), dbOk \in BOOLEAN :
       HandleLineManagerAction(req, dbOk)
  \/ \E req \in FormRequests("hr-action"), dbOk \in BOOLEAN :
       HandleHRManagerAction(req, dbOk)
  \/ \E req \in FormRequests("md-action"), dbOk \in BOOLEAN :
       HandleMDAction(req, dbOk)

SpecForm == Init /\ [][NextForm]_vars

\* The workflow as the pages drive it: the form is submitted (MaxFlows
\* requests are stored at most), every notification is delivered, and every
\* recipient decides once with the token of the link received.
NextFlow ==
  \/ \E dbOk \in BOOLEAN :
       /\ Cardinality(leave_requests) < MaxFlows
       /\ SubmitLeaveRequest(PlainBody, dbOk)
  \/ Deliver
  \/ Recipients

SpecFlow ==
  Init /\ [][NextFlow]_vars /\ WF_vars(Deliver) /\ WF_vars(Recipients)

\* Requests served one after the other by callers that send any text as
\* their decision.
NextText ==
  \/ SubmitLeaveRequest(PlainBody, TRUE)
  \/ \E req \in TextRequests("action") : HandleLineManagerAction(req, TRUE)
  \/ \E req \in TextRequests("hr-action") : HandleHRManagerAction(req, TRUE)
  \/ \E req \in TextRequests("md-action") : HandleMDAction(req, TRUE)

SpecText == Init /\ [][NextText]_vars

\* Signup and Login calls, served concurrently.
NextAuth ==
  \/ \E req \in SignupRequests : SignupLookup(req)
  \/ \E req \in signing, salt \in Salts, now \in Times :
       \E hashOk \in BOOLEAN, dbOk \in BOOLEAN :
         SignupCreate(req, salt, now, hashOk, dbOk)
  \/ \E req \in LoginRequests : Login(req)

SpecAuth == Init /\ [][NextAuth]_vars

\* A deployment whose environment may lack values of the mail service.
InitMail ==
  /\ leave_requests = {}
  /\ nextId = 1
  /\ uuids = <<>>
  /\ uniqueIndex \in BOOLEAN
  /\ inflight = {}
  /\ outbox = {}
  /\ last = NoReply
  /\ env \in { Environment(b, s) : b \in BOOLEAN, s \in BOOLEAN }
  /\ mailLog = {}
  /\ users = {}
  /\ signing = {}

\* Submit, the manager action and the notification goroutines, which run at
\* any time after the handler that started them.
NextMail ==
  \/ \E body \in MailBodies, dbOk \in BOOLEAN : SubmitLeaveRequest(body, dbOk)
  \/ \E req \in ManagerRequests, dbOk \in BOOLEAN :
       HandleLineManagerAction(req, dbOk)
  \/ \E n \in outbox, mailOk \in BOOLEAN : Goroutine(n, mailOk)

SpecMail == InitMail /\ [][NextMail]_vars
====
